---- MODULE Spec2Model ----
(***************************************************************************)
(* File-mediated request/response channel between the web tier            *)
(* (web_server.py) and the worker process (mcp-ssms-client-file.py).      *)
(*                                                                         *)
(* One web session id (uid) is modelled.  Every call of                   *)
(* start_client_process creates one "generation": a registry entry, a     *)
(* process thread (run_process), an output monitor thread                 *)
(* (monitor_output), a heartbeat thread (send_heartbeat) and, once Popen  *)
(* ran, a worker process.  All generations of the uid share the same two  *)
(* files, input_<uid>.txt (request) and output_<uid>.txt (response).      *)
(*                                                                         *)
(* Wall-clock waits (time.sleep, the 0.3 s / 1.0 s / 10 s / 30 s / 120 s  *)
(* windows) are modelled by nondeterministic scheduling: a step that the  *)
(* code takes after a wait may be taken at any later moment.  The 120 s   *)
(* window without content can have passed once a 10 s liveness check     *)
(* without content has passed.                                            *)
(***************************************************************************)
EXTENDS Integers, Sequences, FiniteSets, TLC

\* ------------------------------------------------------------------ bounds
MaxProcs == 2        \* start_client_process calls (generations) explored
MaxCmds == 2         \* commands the client submits
MaxOut == 4          \* writes to the response file explored
\* the bound on automatic restarts that the restart paths are checked
\* against.  The specified default is 3; the restart paths of web_server.py
\* consult no count, so they are checked against a bound that MaxProcs
\* generations can pass
MaxRestarts == 1
Tick == 15           \* seconds between two readings of time.time() explored
MaxAttempts == 3     \* max_attempts of get_input explored (1800 in the code)

Procs == 1..MaxProcs

VARIABLES
    sess,        \* active_sessions.get(uid)
    gens,        \* number of start_client_process calls so far
    reqExists,   \* os.path.exists(input_path)
    reqFile,     \* lines of the request file
    respExists,  \* os.path.exists(output_path)
    respFile,    \* tokens of the response file
    outN,        \* number of writes to the response file so far
    pst,         \* worker process status, per generation
    pth,         \* run_process thread position, per generation
    wpc,         \* worker position, per generation
    wval,        \* content the worker's last get_input / call_tool returned
    hbpc,        \* send_heartbeat thread position, per generation
    mpc,         \* monitor_output thread position, per generation
    mpos,        \* monitor_output: last_position
    mbuf,        \* monitor_output: buffer
    msilent,     \* monitor_output: a liveness check passed since the last content
    delivered,   \* chunks the monitors emitted to the client, in order
    client,      \* the web client: "new", "connected", "gone"
    nextCmd,     \* id of the next command the client submits
    qpc,         \* handle_query handler thread position
    qcmd,        \* the query the handler is submitting
    qwrites,     \* request-file writes of the current run_client_query call
    qret,        \* result of the last run_client_query call
    accepted,    \* ids of commands whose submission returned True
    returned,    \* per command id: how many times get_input returned it
    flagExists,  \* os.path.exists(FLAG_FILE), one path for every worker
    notices,     \* notices of the end, failure or restart of a worker that
                 \* the web tier emitted to the client
    apc,         \* handle_action with action 'f': 0, or the id of the action
                 \* whose feedback the handler has still to write
    pq,          \* process_query of the worker: its position, the number of
                 \* its query_table calls, len(current_query_iterations),
                 \* the decision it read last, the feedback of the current
                 \* iteration, what get_input returned to it last
    gi,          \* get_input of the worker, its wait in attempts: its
                 \* position, the attempts made, whether it acknowledged a
                 \* probe, what it returned
    ct           \* call_tool of the worker, its wait for the tool result:
                 \* its position, the tool, the seconds since start_time,
                 \* whether a progress message is due, whether it cleared a
                 \* heartbeat, how it returned and with what

vars == <<sess, gens, reqExists, reqFile, respExists, respFile, outN, pst, pth,
          wpc, wval, hbpc, mpc, mpos, mbuf, msilent, delivered, client,
          nextCmd, qpc, qcmd, qwrites, qret, accepted, returned,
          flagExists, notices, apc, pq, ct, gi>>

fileVars == <<reqExists, reqFile, respExists, respFile, outN>>
monVars == <<mpc, mpos, mbuf, msilent, delivered>>
workerVars == <<wpc, wval, returned, flagExists>>
queryVars == <<qpc, qcmd, qwrites, qret>>

\* ------------------------------------------------------------ request lines
Heartbeat == [k |-> "hb", id |-> 0]
Probe == [k |-> "probe", id |-> 0]
Query(i) == [k |-> "query", id |-> i]
\* the feedback text that handle_action writes after the action 'f' of id i
Feedback(i) == [k |-> "feedback", id |-> i]
ActionCmd(i) == [k |-> "action", id |-> i]
\* the query "/exit" of the user
ExitLine == [k |-> "exit", id |-> 0]
\* what get_input returns after 1800 polls without content; never a line of
\* the request file
TimedOut == [k |-> "timeout", id |-> 0]
CmdIds == 1..MaxCmds
Commands == {Query(i) : i \in CmdIds} \cup {ActionCmd(i) : i \in CmdIds}

\* the text of a line
Text(l) ==
    CASE l.k = "hb" -> "__HEARTBEAT__"
      [] l.k = "probe" -> "__PROBE__"
      [] l.k = "exit" -> "/exit"
      [] l.k = "timeout" -> "Timed out waiting for input"
      [] OTHER -> "select"

\* str.lower() on the texts above
Lower(t) ==
    CASE t = "__HEARTBEAT__" -> "__heartbeat__"
      [] t = "__PROBE__" -> "__probe__"
      [] t = "Timed out waiting for input" -> "timed out waiting for input"
      [] t = "E" -> "e"
      [] OTHER -> t

\* chat_loop: query.lower() == "/exit", the test that ends the loop
ChatLoopBreaks(content) ==
    Len(content) = 1 /\ Lower(Text(content[1])) = "/exit"

\* f.read().strip() of the request file
Content(f) == f
IsRealCommand(l) == l.k \in {"query", "action"}
\* a command of the user is in the request file
Pending == \E i \in 1..Len(reqFile) : IsRealCommand(reqFile[i])

\* a writer that opens the file with mode 'a' instead
OverwriteAppending(f, line) == Append(f, line)

\* open(path, 'w'); f.write(line + '\n'): the content is replaced
Overwrite(f, line) == <<line>>

\* ---------------------------------------------------------- response tokens
\* a text written to the response file: who wrote it, what it is, and its
\* number in the order of all writes
Tok(by, t) == [by |-> by, t |-> t, n |-> outN + 1]
CanOut == outN < MaxOut

\* ------------------------------------------------------------- the registry
NoSession ==
    [present |-> FALSE, active |-> FALSE, process |-> 0,
     current_action |-> "None"]
NewSession ==
    [present |-> TRUE, active |-> TRUE, process |-> 0,
     current_action |-> "None"]

\* process.poll() is None
Running(p) == pst[p] \in {"running", "signalled"}

is_process_alive ==
    /\ sess.present
    /\ sess.process # 0
    /\ Running(sess.process)

\* process.terminate(): SIGTERM to a process that has not exited
Terminate(ps, p) ==
    IF p # 0 /\ ps[p] = "running" THEN [ps EXCEPT ![p] = "signalled"] ELSE ps

\* while uid in active_sessions and active_sessions[uid]['active']
LoopCondition == sess.present /\ sess.active

Init ==
    /\ sess = NoSession
    /\ gens = 0
    /\ reqExists = FALSE
    /\ reqFile = <<>>
    /\ respExists = FALSE
    /\ respFile = <<>>
    /\ outN = 0
    /\ pst = [p \in Procs |-> "none"]
    /\ pth = [p \in Procs |-> "idle"]
    /\ wpc = [p \in Procs |-> "none"]
    /\ wval = [p \in Procs |-> <<>>]
    /\ hbpc = [p \in Procs |-> "idle"]
    /\ mpc = [p \in Procs |-> "idle"]
    /\ mpos = [p \in Procs |-> 0]
    /\ mbuf = [p \in Procs |-> <<>>]
    /\ msilent = [p \in Procs |-> FALSE]
    /\ delivered = <<>>
    /\ client = "new"
    /\ nextCmd = 1
    /\ qpc = "idle"
    /\ qcmd = 0
    /\ qwrites = 0
    /\ qret = "none"
    /\ accepted = {}
    /\ returned = [i \in CmdIds |-> 0]
    /\ flagExists = FALSE
    /\ notices = {}
    /\ apc = 0
    /\ pq = [pc |-> "idle", executed |-> 0, iterations |-> 0, decision |-> "",
             feedback |-> "", input |-> ""]
    /\ ct = [pc |-> "idle", tool |-> "", elapsed |-> 0, due |-> FALSE,
             cleared |-> FALSE, out |-> "none", result |-> <<>>]
    /\ gi = [pc |-> "idle", attempt |-> 0, acked |-> FALSE, ret |-> <<>>]

\* a web tier that emits no notice
NotifyDropped(k, g) == notices

\* socketio.emit('response', ...) of a notice about the worker of
\* generation g: "ended" (process has ended), "error" (Error running SQL
\* Assistant), "stuck" (appears to be stuck. Attempting to restart),
\* "stopped" (has stopped. Please refresh), "restarting" (Restarting the SQL
\* Table Assistant), "died" (has stopped unexpectedly. Restarting); or
\* socketio.emit('waiting_for_decision', {}) by the monitor of generation g
Notify(k, g) == notices \cup {[k |-> k, g |-> g]}

\* ------------------------------------------------- start / cleanup effects

\* start_client_process up to the start of its three threads: the channel
\* files are emptied, the registry entry is replaced and the threads of a new
\* generation start.  mpcBase is mpc as the caller leaves it.
StartClientProcess(mpcBase) ==
    /\ gens < MaxProcs
    /\ gens' = gens + 1
    /\ reqExists' = TRUE
    /\ reqFile' = <<>>
    /\ respExists' = TRUE
    /\ respFile' = <<>>
    /\ sess' = NewSession
    /\ pth' = [pth EXCEPT ![gens + 1] = "start"]
    /\ mpc' = [mpcBase EXCEPT ![gens + 1] = "init"]
    /\ hbpc' = [hbpc EXCEPT ![gens + 1] = "loop"]
    /\ UNCHANGED <<outN, pst, mpos, mbuf, msilent, delivered, notices, apc,
                   pq, ct, gi>>

\* a cleanup_session without its "if uid in active_sessions"
CleanupSessionUnguarded ==
    /\ sess' = NoSession
    /\ pst' = Terminate(pst, sess.process)
    /\ reqExists' = FALSE
    /\ reqFile' = <<>>
    /\ respExists' = FALSE
    /\ respFile' = <<>>

\* cleanup_session: the entry is deactivated, its process (if stored) is sent
\* terminate(), both channel files are removed, the entry is deleted
CleanupSession ==
    IF sess.present
    THEN /\ sess' = NoSession
         /\ pst' = Terminate(pst, sess.process)
         /\ reqExists' = FALSE
         /\ reqFile' = <<>>
         /\ respExists' = FALSE
         /\ respFile' = <<>>
    ELSE UNCHANGED <<sess, pst, reqExists, reqFile, respExists, respFile>>

\* ------------------------------------------------------ the process thread

\* run_process: Popen, then active_sessions[uid]['process'] = process.  The
\* store goes to whatever entry the registry holds now; with no entry it
\* raises KeyError and the thread ends in its except branch, which emits
\* the error.
RunProcessSpawn(g) ==
    /\ pth[g] = "start"
    /\ pst' = [pst EXCEPT ![g] = "running"]
    /\ wpc' = [wpc EXCEPT ![g] = "boot"]
    /\ IF sess.present
       THEN /\ sess' = [sess EXCEPT !.process = g]
            /\ pth' = [pth EXCEPT ![g] = "reading"]
            /\ notices' = notices
       ELSE /\ sess' = sess
            /\ pth' = [pth EXCEPT ![g] = "done"]
            /\ notices' = Notify("error", g)
    /\ UNCHANGED <<gens, fileVars, wval, returned, flagExists, hbpc, monVars,
                   client, nextCmd, queryVars, accepted, apc, pq, ct, gi>>

\* run_process, Popen raises (the executable cannot be started): no process
\* exists, the except branch emits the error and marks the entry the
\* registry holds now inactive
RunProcessSpawnFails(g) ==
    /\ pth[g] = "start"
    /\ pth' = [pth EXCEPT ![g] = "done"]
    /\ notices' = Notify("error", g)
    /\ sess' = IF sess.present THEN [sess EXCEPT !.active = FALSE] ELSE sess
    /\ UNCHANGED <<gens, fileVars, pst, workerVars, hbpc, monVars, client,
                   nextCmd, queryVars, accepted, apc, pq, ct, gi>>

\* start_client_process after the start of its threads: it sleeps 3 s, logs
\* whether is_process_alive holds, and returns True
StartClientProcessReturns == TRUE

\* run_process after the stdout loop ended: the process exited, the entry
\* the registry holds now is marked inactive, the end is emitted
RunProcessEnd(g) ==
    /\ pth[g] = "reading"
    /\ pst[g] = "exited"
    /\ pth' = [pth EXCEPT ![g] = "done"]
    /\ sess' = IF sess.present THEN [sess EXCEPT !.active = FALSE] ELSE sess
    /\ notices' = Notify("ended", g)
    /\ UNCHANGED <<gens, fileVars, pst, workerVars, hbpc, monVars, client,
                   nextCmd, queryVars, accepted, apc, pq, ct, gi>>

\* ---------------------------------------------------------------- the worker

\* Chat.run up to its call_tool("get_table_schema"): the response file is
\* opened with mode 'w' for the startup text
WorkerStartup(g) ==
    /\ pst[g] = "running"
    /\ wpc[g] = "boot"
    /\ CanOut
    /\ respExists' = TRUE
    /\ respFile' = <<Tok("worker", "startup")>>
    /\ outN' = outN + 1
    /\ wpc' = [wpc EXCEPT ![g] = "call_init"]
    /\ UNCHANGED <<sess, gens, reqExists, reqFile, pst, pth, wval, returned,
                   flagExists, hbpc, monVars, client, nextCmd, queryVars,
                   accepted, notices, apc, pq, ct, gi>>

\* where the caller of call_tool goes on: Chat.run to chat_loop, the
\* handling of a command to the next get_input
AfterTool(pc) == IF pc \in {"call_init", "tool_init"} THEN "ready" ELSE "got"

\* call_tool, the first check: a request file that holds something other
\* than a heartbeat is taken as the tool result at once and cleared, and
\* nothing is written to the response file; else the waiting loop starts
CallToolFirstCheck(g) ==
    /\ pst[g] = "running"
    /\ wpc[g] \in {"call_init", "call_query"}
    /\ IF reqExists /\ Content(reqFile) # <<>> /\ Content(reqFile) # <<Heartbeat>>
       THEN /\ reqFile' = <<>>
            /\ wval' = [wval EXCEPT ![g] = Content(reqFile)]
            /\ wpc' = [wpc EXCEPT ![g] = AfterTool(wpc[g])]
       ELSE /\ reqFile' = reqFile
            /\ wval' = wval
            /\ wpc' = [wpc EXCEPT ![g] =
                          IF wpc[g] = "call_init" THEN "tool_init"
                          ELSE "tool_query"]
    /\ UNCHANGED <<sess, gens, reqExists, respExists, respFile, outN, pst, pth,
                   returned, flagExists, hbpc, monVars, client, nextCmd,
                   queryVars, accepted, notices, apc, pq, ct, gi>>

\* call_tool, the waiting loop: the request file holds something that is not
\* a heartbeat; it is taken as the tool result, the file is cleared and
\* "Received response for ..." is appended to the response file
CallToolResult(g) ==
    /\ pst[g] = "running"
    /\ wpc[g] \in {"tool_init", "tool_query"}
    /\ reqExists
    /\ Content(reqFile) # <<>>
    /\ Content(reqFile) # <<Heartbeat>>
    /\ CanOut
    /\ reqFile' = <<>>
    /\ respExists' = TRUE
    /\ respFile' = Append(respFile, Tok("worker", "toolresult"))
    /\ outN' = outN + 1
    /\ wval' = [wval EXCEPT ![g] = Content(reqFile)]
    /\ wpc' = [wpc EXCEPT ![g] = AfterTool(wpc[g])]
    /\ UNCHANGED <<sess, gens, reqExists, pst, pth, returned, flagExists,
                   hbpc, monVars, client, nextCmd, queryVars, accepted,
                   notices, apc, pq, ct, gi>>

\* call_tool: a heartbeat in the request file is cleared and skipped
CallToolHeartbeat(g) ==
    /\ pst[g] = "running"
    /\ wpc[g] \in {"tool_init", "tool_query"}
    /\ reqExists
    /\ Content(reqFile) = <<Heartbeat>>
    /\ reqFile' = <<>>
    /\ UNCHANGED <<sess, gens, reqExists, respExists, respFile, outN, pst, pth,
                   workerVars, hbpc, monVars, client, nextCmd, queryVars,
                   accepted, notices, apc, pq, ct, gi>>

\* call_tool: the wait timed out, an error response is returned
CallToolTimeout(g) ==
    /\ pst[g] = "running"
    /\ wpc[g] \in {"tool_init", "tool_query"}
    /\ CanOut
    /\ respExists' = TRUE
    /\ respFile' = Append(respFile, Tok("worker", "tooltimeout"))
    /\ outN' = outN + 1
    /\ wval' = [wval EXCEPT ![g] = <<>>]
    /\ wpc' = [wpc EXCEPT ![g] = AfterTool(wpc[g])]
    /\ UNCHANGED <<sess, gens, reqExists, reqFile, pst, pth, returned,
                   flagExists, hbpc, monVars, client, nextCmd, queryVars,
                   accepted, notices, apc, pq, ct, gi>>

\* get_input on entry: the prompt is appended to the response file, the
\* flag file is created and the request file is cleared
\* (open(INPUT_FILE, "w").close())
GetInputEnter(f) == <<>>

\* chat_loop up to its first get_input wait: the response file is opened
\* with mode 'w' for the welcome text, then get_input is entered
ChatLoopStart(g) ==
    /\ pst[g] = "running"
    /\ wpc[g] = "ready"
    /\ CanOut
    /\ respExists' = TRUE
    /\ respFile' = <<Tok("worker", "welcome")>>
    /\ outN' = outN + 1
    /\ reqExists' = TRUE
    /\ reqFile' = GetInputEnter(reqFile)
    /\ flagExists' = TRUE
    /\ wpc' = [wpc EXCEPT ![g] = "gi_wait"]
    /\ UNCHANGED <<sess, gens, pst, pth, wval, returned, hbpc, monVars, client,
                   nextCmd, queryVars, accepted, notices, apc, pq, ct, gi>>

\* the worker handled what it got and calls get_input again, after it wrote
\* the prompt it waits at (the query prompt of chat_loop, the decision prompt
\* or the feedback prompt of process_query)
WorkerNextInput(g) ==
    /\ pst[g] = "running"
    /\ wpc[g] = "got"
    /\ ~ChatLoopBreaks(wval[g])
    /\ CanOut
    /\ respExists' = TRUE
    /\ respFile' = Append(respFile, Tok("worker", "prompt"))
    /\ outN' = outN + 1
    /\ reqExists' = TRUE
    /\ reqFile' = GetInputEnter(reqFile)
    /\ flagExists' = TRUE
    /\ wpc' = [wpc EXCEPT ![g] = "gi_wait"]
    /\ UNCHANGED <<sess, gens, pst, pth, wval, returned, hbpc, monVars, client,
                   nextCmd, queryVars, accepted, notices, apc, pq, ct, gi>>

\* the worker handled a command and calls a tool (process_query, the
\* special commands of chat_loop); chat_loop skips a heartbeat instead
WorkerCallTool(g) ==
    /\ pst[g] = "running"
    /\ wpc[g] = "got"
    /\ wval[g] # <<Heartbeat>>
    /\ ~ChatLoopBreaks(wval[g])
    /\ CanOut
    /\ respExists' = TRUE
    /\ respFile' = Append(respFile, Tok("worker", "toolcall"))
    /\ outN' = outN + 1
    /\ wpc' = [wpc EXCEPT ![g] = "call_query"]
    /\ UNCHANGED <<sess, gens, reqExists, reqFile, pst, pth, wval, returned,
                   flagExists, hbpc, monVars, client, nextCmd, queryVars,
                   accepted, notices, apc, pq, ct, gi>>

\* how often get_input has returned each command, after it returns content
CountReturn(rt, content) ==
    [i \in CmdIds |->
        IF \E j \in 1..Len(content) :
              IsRealCommand(content[j]) /\ content[j].id = i
        THEN rt[i] + 1 ELSE rt[i]]

\* get_input: a poll that finds content other than a probe removes the flag
\* file and returns the content; the request file is left as it is
GetInputReturn(g) ==
    /\ pst[g] = "running"
    /\ wpc[g] = "gi_wait"
    /\ reqExists
    /\ Content(reqFile) # <<>>
    /\ Content(reqFile)[1] # Probe
    /\ wval' = [wval EXCEPT ![g] = Content(reqFile)]
    /\ returned' = CountReturn(returned, Content(reqFile))
    /\ flagExists' = FALSE
    /\ wpc' = [wpc EXCEPT ![g] = "got"]
    /\ UNCHANGED <<sess, gens, fileVars, pst, pth, hbpc, monVars, client,
                   nextCmd, queryVars, accepted, notices, apc, pq, ct, gi>>

\* get_input: 1800 polls found no content; the flag file is removed and
\* "Timed out waiting for input" is returned
GetInputTimeout(g) ==
    /\ pst[g] = "running"
    /\ wpc[g] = "gi_wait"
    /\ Content(reqFile) = <<>>
    /\ wval' = [wval EXCEPT ![g] = <<TimedOut>>]
    /\ flagExists' = FALSE
    /\ wpc' = [wpc EXCEPT ![g] = "got"]
    /\ UNCHANGED <<sess, gens, fileVars, pst, pth, returned, hbpc, monVars,
                   client, nextCmd, queryVars, accepted, notices, apc, pq, ct,
                   gi>>

\* chat_loop got "/exit": it writes its exit message and breaks, and the
\* process ends
WorkerExit(g) ==
    /\ pst[g] = "running"
    /\ wpc[g] = "got"
    /\ ChatLoopBreaks(wval[g])
    /\ CanOut
    /\ respExists' = TRUE
    /\ respFile' = Append(respFile, Tok("worker", "exiting"))
    /\ outN' = outN + 1
    /\ wpc' = [wpc EXCEPT ![g] = "done"]
    /\ pst' = [pst EXCEPT ![g] = "exited"]
    /\ UNCHANGED <<sess, gens, reqExists, reqFile, pth, wval, returned,
                   flagExists, hbpc, monVars, client, nextCmd, queryVars,
                   accepted, notices, apc, pq, ct, gi>>

\* get_input: a poll that finds a probe acknowledges it in the response file,
\* clears the request file, removes the flag file and goes on waiting
GetInputProbe(g) ==
    /\ pst[g] = "running"
    /\ wpc[g] = "gi_wait"
    /\ reqExists
    /\ Content(reqFile) # <<>>
    /\ Content(reqFile)[1] = Probe
    /\ CanOut
    /\ respExists' = TRUE
    /\ respFile' = Append(respFile, Tok("worker", "probe_ack"))
    /\ outN' = outN + 1
    /\ reqFile' = <<>>
    /\ flagExists' = FALSE
    /\ UNCHANGED <<sess, gens, reqExists, pst, pth, wpc, wval, returned, hbpc,
                   monVars, client, nextCmd, queryVars, accepted, notices,
                   apc, pq, ct, gi>>

\* signal_handler: the worker got SIGTERM, appends its shutdown text to the
\* response file and exits
WorkerSigterm(g) ==
    /\ pst[g] = "signalled"
    /\ CanOut
    /\ respExists' = TRUE
    /\ respFile' = Append(respFile, Tok("worker", "shutdown"))
    /\ outN' = outN + 1
    /\ pst' = [pst EXCEPT ![g] = "exited"]
    /\ UNCHANGED <<sess, gens, reqExists, reqFile, pth, workerVars, hbpc,
                   monVars, client, nextCmd, queryVars, accepted, notices,
                   apc, pq, ct, gi>>

\* the worker process is killed from outside, or dies
Kill(g) ==
    /\ Running(g)
    /\ pst' = [pst EXCEPT ![g] = "exited"]
    /\ UNCHANGED <<sess, gens, fileVars, pth, workerVars, hbpc, monVars,
                   client, nextCmd, queryVars, accepted, notices, apc, pq, ct,
                   gi>>

\* ------------------------------------------------------ the heartbeat thread

\* send_heartbeat: the loop condition, the liveness check and the read of
\* the request file; the write follows in a later step
HeartbeatCheck(g) ==
    /\ hbpc[g] = "loop"
    /\ \/ /\ ~LoopCondition
          /\ hbpc' = [hbpc EXCEPT ![g] = "done"]
       \/ /\ LoopCondition
          /\ is_process_alive
          /\ reqExists
          /\ Content(reqFile) = <<>>
          /\ hbpc' = [hbpc EXCEPT ![g] = "write"]
    /\ UNCHANGED <<sess, gens, fileVars, pst, pth, workerVars, monVars, client,
                   nextCmd, queryVars, accepted, notices, apc, pq, ct, gi>>

\* send_heartbeat: open(input_path, 'w'); f.write("__HEARTBEAT__\n")
HeartbeatWrite(g) ==
    /\ hbpc[g] = "write"
    /\ reqExists' = TRUE
    /\ reqFile' = Overwrite(reqFile, Heartbeat)
    /\ hbpc' = [hbpc EXCEPT ![g] = "loop"]
    /\ UNCHANGED <<sess, gens, respExists, respFile, outN, pst, pth,
                   workerVars, monVars, client, nextCmd, queryVars, accepted,
                   notices, apc, pq, ct, gi>>

\* ----------------------------------------------------------- the web client

\* handle_connect: a new uid, start_client_process
Connect ==
    /\ client = "new"
    /\ client' = "connected"
    /\ StartClientProcess(mpc)
    /\ UNCHANGED <<workerVars, nextCmd, queryVars, accepted, notices, apc, pq,
                   ct, gi>>

\* handle_disconnect: cleanup_session(uid)
Disconnect ==
    /\ client = "connected"
    /\ client' = "gone"
    /\ CleanupSession
    /\ UNCHANGED <<gens, outN, pth, workerVars, hbpc, monVars, nextCmd,
                   queryVars, accepted, notices, apc, pq, ct, gi>>

\* handle_query: the branch taken on the state of the registry
HandleQuery ==
    /\ client = "connected"
    /\ qpc = "idle"
    /\ nextCmd <= MaxCmds
    /\ qcmd' = nextCmd
    /\ nextCmd' = nextCmd + 1
    /\ qwrites' = 0
    /\ qret' = "none"
    /\ qpc' = IF ~sess.present THEN "create"
              ELSE IF ~is_process_alive THEN "cleanup"
              ELSE "run"
    /\ notices' = IF sess.present /\ ~is_process_alive
                  THEN Notify("restarting", gens) ELSE notices
    /\ UNCHANGED <<sess, gens, fileVars, pst, pth, workerVars, hbpc, monVars,
                   client, accepted, apc, pq, ct, gi>>

\* handle_query, the process died: cleanup_session(uid)
HandleQueryCleanup ==
    /\ qpc = "cleanup"
    /\ qpc' = "create"
    /\ CleanupSession
    /\ UNCHANGED <<gens, outN, pth, workerVars, hbpc, monVars, client, nextCmd,
                   qcmd, qwrites, qret, accepted, notices, apc, pq, ct, gi>>

\* handle_query: start_client_process(uid, sid)
HandleQueryStart ==
    /\ qpc = "create"
    /\ qpc' = "run"
    /\ StartClientProcess(mpc)
    /\ UNCHANGED <<workerVars, client, nextCmd, qcmd, qwrites, qret, accepted,
                   notices, apc, pq, ct, gi>>

\* run_client_query rejects before it writes: the session is not active, no
\* process object is stored, or the process is not running
RejectsQuery == ~sess.active \/ sess.process = 0 \/ ~is_process_alive

\* a run_client_query that leaves a request file that holds something alone
WriteQueryUnlessBusy(f, q) == IF f # <<>> THEN f ELSE Overwrite(f, q)

\* run_client_query: the request file after the query is written
WriteQuery(f, q) == Overwrite(f, q)

\* handle_query from its store of current_action (KeyError without an entry)
\* and run_client_query up to the write of the query: the checks, the marker
\* appended to the response file, the query written to the request file
RunClientQuery ==
    /\ qpc = "run"
    /\ IF ~sess.present
       THEN /\ qpc' = "idle"
            /\ qret' = "error"
            /\ UNCHANGED <<fileVars, qwrites>>
       ELSE IF RejectsQuery
       THEN /\ qpc' = "idle"
            /\ qret' = "false"
            /\ UNCHANGED <<fileVars, qwrites>>
       ELSE /\ CanOut
            /\ respExists' = TRUE
            /\ respFile' = Append(respFile, Tok("web", "marker"))
            /\ outN' = outN + 1
            /\ reqExists' = TRUE
            /\ reqFile' = WriteQuery(reqFile, Query(qcmd))
            /\ qwrites' = qwrites + 1
            /\ qpc' = "written"
            /\ qret' = qret
    /\ sess' = IF sess.present
               THEN [sess EXCEPT !.current_action = "query"]
               ELSE sess
    /\ UNCHANGED <<gens, pst, pth, workerVars, hbpc, monVars, client,
                   nextCmd, qcmd, accepted, notices, apc, pq, ct, gi>>

\* a run_client_query that returns False after its write when the process
\* has died, without the restart
RunClientQueryCheckNoRestart ==
    /\ qpc = "written"
    /\ qpc' = "idle"
    /\ qret' = IF is_process_alive THEN "true" ELSE "false"
    /\ accepted' = IF is_process_alive THEN accepted \cup {qcmd} ELSE accepted
    /\ UNCHANGED <<sess, gens, fileVars, pst, pth, workerVars, hbpc, monVars,
                   client, nextCmd, qcmd, qwrites, notices, apc, pq, ct, gi>>

\* run_client_query one second after the write: True when the process is
\* alive, else the notice of the restart and cleanup_session
RunClientQueryCheck ==
    /\ qpc = "written"
    /\ IF is_process_alive
       THEN /\ qpc' = "idle"
            /\ qret' = "true"
            /\ accepted' = accepted \cup {qcmd}
            /\ UNCHANGED <<sess, pst, reqExists, reqFile, respExists, respFile,
                           notices>>
       ELSE /\ qpc' = "restart"
            /\ qret' = qret
            /\ accepted' = accepted
            /\ notices' = Notify("died", gens)
            /\ CleanupSession
    /\ UNCHANGED <<gens, outN, pth, workerVars, hbpc, monVars, client, nextCmd,
                   qcmd, qwrites, apc, pq, ct, gi>>

\* run_client_query, the process died after the write:
\* start_client_process, return False
RunClientQueryRestart ==
    /\ qpc = "restart"
    /\ qpc' = "idle"
    /\ qret' = "false"
    /\ StartClientProcess(mpc)
    /\ UNCHANGED <<workerVars, client, nextCmd, qcmd, qwrites, accepted,
                   notices, apc, pq, ct, gi>>

\* handle_query and run_client_query for the query "/exit", with a process
\* that is alive before and after the write: the marker is appended to the
\* response file and the query is written to the request file
HandleExit ==
    /\ client = "connected"
    /\ qpc = "idle"
    /\ sess.present
    /\ ~RejectsQuery
    /\ CanOut
    /\ respExists' = TRUE
    /\ respFile' = Append(respFile, Tok("web", "marker"))
    /\ outN' = outN + 1
    /\ reqExists' = TRUE
    /\ reqFile' = WriteQuery(reqFile, ExitLine)
    /\ sess' = [sess EXCEPT !.current_action = "query"]
    /\ UNCHANGED <<gens, pst, pth, workerVars, hbpc, monVars, client,
                   nextCmd, queryVars, accepted, notices, apc, pq, ct, gi>>

\* run_client_action: the request file after the action is written
WriteAction(f, a) == Overwrite(f, a)

\* handle_action with a valid action and run_client_action: the session is
\* active and its process alive, the action is written to the request file
HandleAction ==
    /\ client = "connected"
    /\ nextCmd <= MaxCmds
    /\ sess.present
    /\ sess.active
    /\ is_process_alive
    /\ reqExists' = TRUE
    /\ reqFile' = WriteAction(reqFile, ActionCmd(nextCmd))
    /\ accepted' = accepted \cup {nextCmd}
    /\ nextCmd' = nextCmd + 1
    /\ \E action \in {"e", "c"} :
          sess' = [sess EXCEPT !.current_action = action]
    /\ UNCHANGED <<gens, respExists, respFile, outN, pst, pth,
                   workerVars, hbpc, monVars, client, queryVars, notices, apc,
                   pq, ct, gi>>

\* what the client can send as the action and as the feedback
ActionInputs == {"e", "f", "c", "x", ""}
FeedbackTexts == {"", "order by date"}

\* handle_action returns before run_client_action: the action is empty or
\* none of 'e', 'f', 'c'; the session is not registered or its process is
\* not alive; or, after the store of current_action, the action is 'f' and
\* the feedback is empty
HandleActionRejected(action, feedback) ==
    /\ client = "connected"
    /\ IF action \notin {"e", "f", "c"}
       THEN sess' = sess
       ELSE IF ~sess.present \/ ~is_process_alive
       THEN sess' = sess
       ELSE /\ action = "f"
            /\ feedback = ""
            /\ sess' = [sess EXCEPT !.current_action = action]
    /\ UNCHANGED <<gens, fileVars, pst, pth, workerVars, hbpc, monVars,
                   client, nextCmd, queryVars, accepted, notices, apc, pq, ct,
                   gi>>

\* handle_action for an action it rejects
RejectSteps ==
    \E action \in ActionInputs, feedback \in FeedbackTexts :
        HandleActionRejected(action, feedback)

\* handle_action with action 'f' and feedback, up to its sleep of 0.5 s:
\* the session is known and its process alive, run_client_action writes the
\* action to the request file
HandleRefine ==
    /\ client = "connected"
    /\ nextCmd <= MaxCmds
    /\ apc = 0
    /\ sess.present
    /\ sess.active
    /\ is_process_alive
    /\ reqExists' = TRUE
    /\ reqFile' = WriteAction(reqFile, ActionCmd(nextCmd))
    /\ accepted' = accepted \cup {nextCmd}
    /\ apc' = nextCmd
    /\ nextCmd' = nextCmd + 1
    /\ sess' = [sess EXCEPT !.current_action = "f"]
    /\ UNCHANGED <<gens, respExists, respFile, outN, pst, pth,
                   workerVars, hbpc, monVars, client, queryVars, notices, pq,
                   ct, gi>>

\* handle_action with action 'f' after its sleep of 0.5 s:
\* run_client_action(uid, feedback, sid) writes the feedback to the request
\* file when the session is active and its process alive
HandleRefineFeedback ==
    /\ apc # 0
    /\ apc' = 0
    /\ IF sess.present /\ sess.active /\ is_process_alive
       THEN /\ reqExists' = TRUE
            /\ reqFile' = WriteAction(reqFile, Feedback(apc))
       ELSE UNCHANGED <<reqExists, reqFile>>
    /\ UNCHANGED <<sess, gens, respExists, respFile, outN, pst, pth,
                   workerVars, hbpc, monVars, client, nextCmd, queryVars,
                   accepted, notices, pq, ct, gi>>

\* ------------------------------------------------------- the output monitor

\* monitor_output before its loop: the response file is opened with mode 'w'
MonitorInit(g) ==
    /\ mpc[g] = "init"
    /\ mpc' = [mpc EXCEPT ![g] = "loop"]
    /\ respExists' = TRUE
    /\ respFile' = <<>>
    /\ UNCHANGED <<sess, gens, reqExists, reqFile, outN, pst, pth, workerVars,
                   hbpc, mpos, mbuf, msilent, delivered, client,
                   nextCmd, queryVars, accepted, notices, apc, pq, ct, gi>>

\* socketio.emit('response', {'text': ''.join(buffer)}); how is the flush the
\* thread then logs: "flush" (buffer full or 0.3 s), "timeout" (1.0 s
\* without content) or "final" (after the loop)
Emit(d, g, buf, how) == Append(d, [by |-> g, text |-> buf, log |-> how])

\* the offset the read starts at: 0 when the file is shorter than
\* last_position, else last_position.  (While initial_output_seen is False
\* every read so far was empty, so last_position is 0 and the seek(0) of that
\* case starts at the same offset.)
ReadFrom(g) == IF Len(respFile) < mpos[g] THEN 0 ELSE mpos[g]

\* new_content = f.read()
NewContent(g) == SubSeq(respFile, ReadFrom(g) + 1, Len(respFile))

\* current_time - last_content_time > 120 can hold: no content was read
\* since a liveness check that found the process alive
Unresponsive(g) == msilent[g]

\* the buffer after a flush
Flushed(buf) == <<>>

\* len(''.join(buffer)) > 30: the size above which a read is flushed at once
FlushChars == 30

\* the number of characters of a text.  The acknowledgement of a probe,
\* "\n__PROBE_ACK__: \n", has 17; every other text the worker or the web
\* tier writes to the response file has more than 30, and is counted as 31
TextLen(t) == IF t.t = "probe_ack" THEN 17 ELSE FlushChars + 1

\* len(''.join(buffer))
RECURSIVE BufLen(_)
BufLen(buf) == IF buf = <<>> THEN 0 ELSE TextLen(Head(buf)) + BufLen(Tail(buf))

\* a monitor that never flushes for the size of its buffer
SizeFlushOff(buf) == FALSE

\* the buffer is flushed for its size
SizeFlush(buf) == BufLen(buf) > FlushChars

\* the markers of the decision prompt that a text of the response file
\* holds.  The prompt is "Do you want to (e)xecute this query, provide
\* (f)eedback to refine it, or (c)ancel? (e/f/c): "; "sql_prompt_head" is a
\* write of the SQL block and the prompt seen up to "(e)xecute",
\* "sql_prompt_tail" the 68 characters that follow
Markers(tok) ==
    CASE tok.t \in {"sql_prompt", "invalid_prompt"}
           -> {"(e)xecute", "(f)eedback", "(c)ancel"}
      [] tok.t = "sql_prompt_head" -> {"(e)xecute"}
      [] tok.t = "sql_prompt_tail" -> {"(f)eedback", "(c)ancel"}
      [] OTHER -> {}

\* "(e)xecute" in content_to_check and "(f)eedback" in content_to_check and
\* "(c)ancel" in content_to_check, content_to_check = ''.join(buffer)
WaitingForDecision(buf) ==
    {"(e)xecute", "(f)eedback", "(c)ancel"}
        \subseteq UNION {Markers(buf[i]) : i \in 1..Len(buf)}

\* monitor_output, a poll that reads new content: it goes to the buffer, the
\* buffer is searched for the markers of the decision prompt, and it is
\* flushed when it holds more than 30 characters or 0.3 s have passed since
\* the last flush
MonitorRead(g) ==
    /\ mpc[g] = "loop"
    /\ LoopCondition
    /\ respExists
    /\ NewContent(g) # <<>>
    /\ msilent' = [msilent EXCEPT ![g] = FALSE]
    /\ mpos' = [mpos EXCEPT ![g] = Len(respFile)]
    /\ LET buf == mbuf[g] \o NewContent(g) IN
       /\ notices' = IF WaitingForDecision(buf)
                     THEN Notify("waiting_for_decision", g)
                     ELSE notices
       /\ \E flush \in (IF SizeFlush(buf) THEN {TRUE} ELSE BOOLEAN) :
            IF flush
            THEN /\ delivered' = Emit(delivered, g, buf, "flush")
                 /\ mbuf' = [mbuf EXCEPT ![g] = Flushed(buf)]
            ELSE /\ delivered' = delivered
                 /\ mbuf' = [mbuf EXCEPT ![g] = buf]
    /\ UNCHANGED <<sess, gens, fileVars, pst, pth, workerVars, hbpc, mpc,
                   client, nextCmd, queryVars, accepted, apc, pq, ct, gi>>

\* monitor_output, a poll without new content: last_position follows the
\* file size (a file truncated to nothing)
MonitorRewind(g) ==
    /\ mpc[g] = "loop"
    /\ LoopCondition
    /\ respExists
    /\ NewContent(g) = <<>>
    /\ mpos[g] # Len(respFile)
    /\ mpos' = [mpos EXCEPT ![g] = Len(respFile)]
    /\ UNCHANGED <<sess, gens, fileVars, pst, pth, workerVars, hbpc, mpc, mbuf,
                   msilent, delivered, client, nextCmd, queryVars,
                   accepted, notices, apc, pq, ct, gi>>

\* a monitor without the flush of its polls without new content
MonitorIdleFlushOff(g) ==
    /\ FALSE
    /\ UNCHANGED vars

\* monitor_output, a poll without new content more than 1.0 s after the
\* last flush: the buffer is flushed
MonitorIdleFlush(g) ==
    /\ mpc[g] = "loop"
    /\ LoopCondition
    /\ respExists
    /\ NewContent(g) = <<>>
    /\ mbuf[g] # <<>>
    /\ delivered' = Emit(delivered, g, mbuf[g], "timeout")
    /\ mbuf' = [mbuf EXCEPT ![g] = Flushed(mbuf[g])]
    /\ UNCHANGED <<sess, gens, fileVars, pst, pth, workerVars, hbpc, mpc, mpos,
                   msilent, client, nextCmd, queryVars, accepted, notices,
                   apc, pq, ct, gi>>

\* the locals of a monitor thread that has left its loop
Gone(f, g, v) == [f EXCEPT ![g] = v]

\* a monitor thread that drops what is left in its buffer
FinalFlushDropping(d, g) == d

\* monitor_output after its loop: the remaining buffer is flushed
FinalFlush(d, g) == IF mbuf[g] # <<>> THEN Emit(d, g, mbuf[g], "final") ELSE d

\* a liveness poll that takes the restart path when it finds the process
\* dead
MonitorLivenessRestarting(g) ==
    /\ mpc[g] = "loop"
    /\ LoopCondition
    /\ respExists
    /\ NewContent(g) = <<>>
    /\ mpc' = [mpc EXCEPT ![g] = IF is_process_alive THEN "loop" ELSE "cleanup"]
    /\ msilent' = [msilent EXCEPT ![g] = TRUE]
    /\ UNCHANGED <<sess, gens, fileVars, pst, pth, workerVars, hbpc, mpos,
                   mbuf, delivered, client, nextCmd, queryVars, accepted,
                   notices, apc, pq, ct, gi>>

\* monitor_output, a poll without new content more than 10 s after the last
\* check: a dead process ends the loop; else the request file is read for
\* the probe, which is written in a later step when the file was empty
MonitorLiveness(g) ==
    /\ mpc[g] = "loop"
    /\ LoopCondition
    /\ respExists
    /\ NewContent(g) = <<>>
    /\ IF ~is_process_alive
       THEN /\ mpc' = [mpc EXCEPT ![g] = "stopped"]
            /\ notices' = Notify("stopped", g)
            /\ delivered' = FinalFlush(delivered, g)
            /\ mbuf' = Gone(mbuf, g, <<>>)
            /\ msilent' = Gone(msilent, g, FALSE)
            /\ mpos' = Gone(mpos, g, 0)
       ELSE /\ mpc' = [mpc EXCEPT ![g] =
                          IF reqExists /\ Content(reqFile) = <<>>
                          THEN "probe" ELSE "loop"]
            /\ msilent' = [msilent EXCEPT ![g] = TRUE]
            /\ UNCHANGED <<delivered, mbuf, mpos, notices>>
    /\ UNCHANGED <<sess, gens, fileVars, pst, pth, workerVars, hbpc,
                   client, nextCmd, queryVars, accepted, apc, pq, ct, gi>>

\* monitor_output: open(input_path, 'w'); f.write("__PROBE__\n")
MonitorProbeWrite(g) ==
    /\ mpc[g] = "probe"
    /\ mpc' = [mpc EXCEPT ![g] = "loop"]
    /\ reqExists' = TRUE
    /\ reqFile' = Overwrite(reqFile, Probe)
    /\ UNCHANGED <<sess, gens, respExists, respFile, outN, pst, pth,
                   workerVars, hbpc, mpos, mbuf, msilent, delivered,
                   client, nextCmd, queryVars, accepted, notices, apc, pq, ct,
                   gi>>

\* monitor_output, no content for more than 120 s: the notice is appended to
\* the response file, the restart is announced to the client and a process
\* that is alive is sent terminate(); the thread returns after the restart
\* without flushing its buffer
MonitorUnresponsive(g) ==
    /\ mpc[g] = "loop"
    /\ LoopCondition
    /\ Unresponsive(g)
    /\ CanOut
    /\ respExists' = TRUE
    /\ respFile' = Append(respFile, Tok("web", "system"))
    /\ outN' = outN + 1
    /\ pst' = IF is_process_alive THEN Terminate(pst, sess.process) ELSE pst
    /\ notices' = Notify("stuck", g)
    /\ mpc' = [mpc EXCEPT ![g] = "cleanup"]
    /\ mbuf' = Gone(mbuf, g, <<>>)
    /\ msilent' = Gone(msilent, g, FALSE)
    /\ mpos' = Gone(mpos, g, 0)
    /\ UNCHANGED <<sess, gens, reqExists, reqFile, pth, workerVars, hbpc,
                   delivered, client, nextCmd, queryVars, accepted, apc, pq,
                   ct, gi>>

\* monitor_output, unresponsive: cleanup_session(uid)
MonitorCleanup(g) ==
    /\ mpc[g] = "cleanup"
    /\ mpc' = [mpc EXCEPT ![g] = "restart"]
    /\ CleanupSession
    /\ UNCHANGED <<gens, outN, pth, workerVars, hbpc, mpos, mbuf, msilent, delivered, client, nextCmd, queryVars, accepted,
                   notices, apc, pq, ct, gi>>

\* monitor_output, unresponsive: start_client_process(uid, sid); return
MonitorRestart(g) ==
    /\ mpc[g] = "restart"
    /\ StartClientProcess([mpc EXCEPT ![g] = "done"])
    /\ UNCHANGED <<workerVars, client, nextCmd, queryVars, accepted, notices,
                   apc, pq, ct, gi>>

\* monitor_output: the loop condition fails, the remaining buffer is flushed
MonitorExit(g) ==
    /\ mpc[g] = "loop"
    /\ ~LoopCondition
    /\ mpc' = [mpc EXCEPT ![g] = "done"]
    /\ delivered' = FinalFlush(delivered, g)
    /\ mbuf' = Gone(mbuf, g, <<>>)
    /\ msilent' = Gone(msilent, g, FALSE)
    /\ mpos' = Gone(mpos, g, 0)
    /\ UNCHANGED <<sess, gens, fileVars, pst, pth, workerVars, hbpc,
                   client, nextCmd, queryVars, accepted, notices, apc, pq, ct,
                   gi>>

\* ------------------------------------------------------------ specification

\* the handlers of the web client that write to the channel
WebSteps ==
    \/ Connect
    \/ HandleQuery
    \/ RunClientQuery
    \/ RunClientQueryCheck
    \/ HandleAction

\* the paths that clean up and start again
RestartSteps ==
    \/ Disconnect
    \/ HandleQueryCleanup
    \/ HandleQueryStart
    \/ RunClientQueryRestart
    \/ \E g \in Procs : MonitorUnresponsive(g)
    \/ \E g \in Procs : MonitorCleanup(g)
    \/ \E g \in Procs : MonitorRestart(g)

\* the process thread and the end of a worker process
ProcessSteps ==
    \/ \E g \in Procs : RunProcessSpawn(g)
    \/ \E g \in Procs : RunProcessSpawnFails(g)
    \/ \E g \in Procs : RunProcessEnd(g)
    \/ \E g \in Procs : WorkerSigterm(g)
    \/ \E g \in Procs : Kill(g)

WorkerSteps ==
    \/ \E g \in Procs : WorkerStartup(g)
    \/ \E g \in Procs : CallToolFirstCheck(g)
    \/ \E g \in Procs : CallToolResult(g)
    \/ \E g \in Procs : CallToolHeartbeat(g)
    \/ \E g \in Procs : CallToolTimeout(g)
    \/ \E g \in Procs : ChatLoopStart(g)
    \/ \E g \in Procs : WorkerNextInput(g)
    \/ \E g \in Procs : WorkerCallTool(g)
    \/ \E g \in Procs : GetInputReturn(g)
    \/ \E g \in Procs : GetInputProbe(g)

\* the ends of a wait of chat_loop other than a command: the timeout of
\* get_input, and the query "/exit"
ExitSteps ==
    \/ HandleExit
    \/ \E g \in Procs : GetInputTimeout(g)
    \/ \E g \in Procs : WorkerExit(g)

HeartbeatSteps ==
    \/ \E g \in Procs : HeartbeatCheck(g)
    \/ \E g \in Procs : HeartbeatWrite(g)

\* the monitor as reader of the response file
AggregatorSteps ==
    \/ \E g \in Procs : MonitorInit(g)
    \/ \E g \in Procs : MonitorRead(g)
    \/ \E g \in Procs : MonitorRewind(g)
    \/ \E g \in Procs : MonitorIdleFlush(g)
    \/ \E g \in Procs : MonitorExit(g)

\* the monitor's 10 s liveness round and its probe
ProbeSteps ==
    \/ \E g \in Procs : MonitorLiveness(g)
    \/ \E g \in Procs : MonitorProbeWrite(g)

\* ------------------------------------------------------------ process_query

\* what get_input can return at the decision prompt: a decision in either
\* case, something else the user typed, a heartbeat (get_input answers a
\* probe itself), the text of its timeout
DecisionInputs ==
    {"e", "E", "f", "c", "x", "__HEARTBEAT__", "Timed out waiting for input"}

\* what get_input can return at the feedback prompt
FeedbackInputs == {"order by date", "only 2024", "__HEARTBEAT__"}

\* t.startswith("__") and t.endswith("__")
IsSpecial(t) == t \in {"__HEARTBEAT__", "__heartbeat__", "__PROBE__", "__probe__"}

\* a process_query that takes every decision that is not 'c' or 'f' for an
\* approval
ApprovesUnlessRefused(decision) == ~IsSpecial(decision)

\* elif decision == 'e'
Approves(decision) == decision = "e"

\* with open(OUTPUT_FILE, "a") as f: f.write(...), by process_query; nothing
\* else of the session moves
ProcessQueryWrites(t) ==
    /\ CanOut
    /\ respExists' = TRUE
    /\ respFile' = Append(respFile, Tok("worker", t))
    /\ outN' = outN + 1
    /\ UNCHANGED <<sess, gens, reqExists, reqFile, pst, pth, workerVars, hbpc,
                   monVars, client, nextCmd, queryVars, accepted, notices,
                   apc, ct, gi>>

\* process_query up to its first decision prompt: the acknowledgement, the
\* iteration list reset, generate_sql_iteration, the SQL and the prompt
ProcessQueryStart ==
    /\ pq.pc \in {"idle", "done"}
    /\ ProcessQueryWrites("sql_prompt")
    /\ pq' = [pc |-> "decide", executed |-> 0, iterations |-> 1,
              decision |-> "", feedback |-> "", input |-> ""]

\* process_query, decision = get_input("").strip().lower() and its branch.
\* A special command: continue, the SQL and the prompt are written again.
\* 'c': canceled, break.  'f': the feedback prompt.  'e': the query is
\* marked executed and query_table is called.  Else: the invalid-choice
\* text with the prompt, and the SQL and the prompt again.
ProcessQueryDecide(d) ==
    /\ pq.pc = "decide"
    /\ LET decision == Lower(d) IN
       IF IsSpecial(decision)
       THEN /\ ProcessQueryWrites("sql_prompt")
            /\ pq' = [pq EXCEPT !.input = d, !.decision = decision]
       ELSE IF decision = "c"
       THEN /\ ProcessQueryWrites("canceled")
            /\ pq' = [pq EXCEPT !.input = d, !.decision = decision, !.pc = "done"]
       ELSE IF decision = "f"
       THEN /\ ProcessQueryWrites("feedback_prompt")
            /\ pq' = [pq EXCEPT !.input = d, !.decision = decision, !.pc = "feedback"]
       ELSE IF Approves(decision)
       THEN /\ ProcessQueryWrites("executing")
            /\ pq' = [pq EXCEPT !.input = d, !.decision = decision, !.pc = "tool",
                                !.executed = @ + 1]
       ELSE /\ ProcessQueryWrites("invalid_prompt")
            /\ pq' = [pq EXCEPT !.input = d, !.decision = decision]

\* process_query, feedback = get_input(...): a special command cancels the
\* refinement (break); else the feedback is stored, the next iteration is
\* generated, and the SQL and the prompt are written
ProcessQueryFeedback(fb) ==
    /\ pq.pc = "feedback"
    /\ IF IsSpecial(fb)
       THEN /\ ProcessQueryWrites("refine_canceled")
            /\ pq' = [pq EXCEPT !.input = fb, !.pc = "done"]
       ELSE /\ ProcessQueryWrites("sql_prompt")
            /\ pq' = [pq EXCEPT !.input = fb, !.pc = "decide",
                                !.iterations = @ + 1, !.feedback = fb]

\* process_query after call_tool("query_table") returned: the results, the
\* query log, the explanation; break
ProcessQueryExecuted ==
    /\ pq.pc = "tool"
    /\ ProcessQueryWrites("results")
    /\ pq' = [pq EXCEPT !.pc = "done"]

\* process_query up to its first decision prompt, as a reader of the
\* response file can see the write while it is under way: the SQL block and
\* the prompt up to "(e)xecute"
ProcessQueryStartPartial ==
    /\ pq.pc \in {"idle", "done"}
    /\ ProcessQueryWrites("sql_prompt_head")
    /\ pq' = [pc |-> "writing", executed |-> 0, iterations |-> 1,
              decision |-> "", feedback |-> "", input |-> ""]

\* the rest of that write: the prompt is complete
ProcessQueryPromptRest ==
    /\ pq.pc = "writing"
    /\ ProcessQueryWrites("sql_prompt_tail")
    /\ pq' = [pq EXCEPT !.pc = "decide"]

\* the decision prompt, seen in two parts
PromptSteps ==
    \/ ProcessQueryStartPartial
    \/ ProcessQueryPromptRest

ProcessQuerySteps ==
    \/ ProcessQueryStart
    \/ \E d \in DecisionInputs : ProcessQueryDecide(d)
    \/ \E fb \in FeedbackInputs : ProcessQueryFeedback(fb)
    \/ ProcessQueryExecuted

\* ----------------------------------------------- call_tool, the wait in time

\* the tools whose windows differ
Tools == {"test_connection", "query_table"}

\* a call_tool that gives every tool the same window
ToolTimeoutSame(tool_name) == 45

\* timeout_seconds = 90 if tool_name == "test_connection" else 45
ToolTimeout(tool_name) == IF tool_name = "test_connection" THEN 90 ELSE 45

\* time.time() - start_time > 10: an error of the wait is returned from here
ErrorGrace == 10

\* with open(OUTPUT_FILE, "a") as f: f.write(...), by call_tool
ToolWrites(f, t) == Append(f, Tok("worker", t))

\* call_tool up to its first check: the text of the tool call is appended
\* to the response file, start_time is taken
CallToolBegin(tool_name) ==
    /\ ct.pc \in {"idle", "done"}
    /\ CanOut
    /\ respExists' = TRUE
    /\ respFile' = ToolWrites(respFile, "tool_call")
    /\ outN' = outN + 1
    /\ ct' = [pc |-> "first", tool |-> tool_name, elapsed |-> 0,
              due |-> FALSE, cleared |-> FALSE, out |-> "none",
              result |-> <<>>]
    /\ UNCHANGED <<sess, gens, reqExists, reqFile, pst, pth, workerVars, hbpc,
                   monVars, client, nextCmd, queryVars, accepted, notices,
                   apc, pq, gi>>

\* call_tool, the first check: a request file that holds something other
\* than a heartbeat is returned at once and cleared; a read that raises is
\* logged; else the waiting loop starts
CallToolFirst(raises) ==
    /\ ct.pc = "first"
    /\ IF ~raises /\ reqExists /\ Content(reqFile) # <<>>
          /\ Content(reqFile) # <<Heartbeat>>
       THEN /\ reqFile' = <<>>
            /\ ct' = [ct EXCEPT !.pc = "done", !.out = "result",
                                !.result = Content(reqFile)]
       ELSE /\ reqFile' = reqFile
            /\ ct' = [ct EXCEPT !.pc = "wait"]
    /\ UNCHANGED <<sess, gens, reqExists, respExists, respFile, outN, pst, pth,
                   workerVars, hbpc, monVars, client, nextCmd, queryVars,
                   accepted, notices, apc, pq, gi>>

\* time passes while the loop sleeps: more than 5 s, so that the next round
\* owes a progress message
CallToolTick ==
    /\ ct.pc = "wait"
    /\ ct.elapsed <= ToolTimeout(ct.tool)
    /\ ct' = [ct EXCEPT !.elapsed = @ + Tick, !.due = TRUE]
    /\ UNCHANGED <<sess, gens, fileVars, pst, pth, workerVars, hbpc, monVars,
                   client, nextCmd, queryVars, accepted, notices, apc, pq, gi>>

\* the response file after the progress message of a round
Progress(f) == IF ct.due THEN ToolWrites(f, "still_waiting") ELSE f

\* call_tool, a round of the waiting loop inside the window: the progress
\* message when one is due, then the read of the request file.  A read
\* that raises returns an error response more than 10 s after start_time
\* and is retried before; an empty file is polled again; a heartbeat is
\* cleared and the wait goes on; anything else is returned, the file is
\* cleared and the receipt is appended to the response file
CallToolPoll(raises) ==
    /\ ct.pc = "wait"
    /\ ~(ct.elapsed > ToolTimeout(ct.tool))
    /\ respExists' = TRUE
    /\ IF raises
       THEN /\ ct' = IF ct.elapsed > ErrorGrace
                     THEN [ct EXCEPT !.pc = "done", !.out = "error",
                                     !.due = FALSE]
                     ELSE [ct EXCEPT !.due = FALSE]
            /\ respFile' = Progress(respFile)
            /\ UNCHANGED <<reqExists, reqFile>>
       ELSE IF ~reqExists \/ Content(reqFile) = <<>>
       THEN /\ ct' = [ct EXCEPT !.due = FALSE]
            /\ respFile' = Progress(respFile)
            /\ UNCHANGED <<reqExists, reqFile>>
       ELSE IF Content(reqFile) = <<Heartbeat>>
       THEN /\ ct' = [ct EXCEPT !.due = FALSE, !.cleared = TRUE]
            /\ respFile' = Progress(respFile)
            /\ reqExists' = TRUE
            /\ reqFile' = <<>>
       ELSE /\ ct' = [ct EXCEPT !.pc = "done", !.out = "result",
                                !.result = Content(reqFile), !.due = FALSE]
            /\ respFile' = ToolWrites(Progress(respFile), "received")
            /\ reqExists' = TRUE
            /\ reqFile' = <<>>
    /\ outN' = outN + (Len(respFile') - Len(respFile))
    /\ UNCHANGED <<sess, gens, pst, pth, workerVars, hbpc, monVars, client,
                   nextCmd, queryVars, accepted, notices, apc, pq, gi>>

\* call_tool, a round of the waiting loop after the window: the timeout
\* text is appended to the response file and the timeout error response of
\* the tool is returned
CallToolWindowEnds ==
    /\ ct.pc = "wait"
    /\ ct.elapsed > ToolTimeout(ct.tool)
    /\ respExists' = TRUE
    /\ respFile' = ToolWrites(respFile, "tool_timeout")
    /\ outN' = outN + 1
    /\ ct' = [ct EXCEPT !.pc = "done", !.out = "timeout", !.due = FALSE]
    /\ UNCHANGED <<sess, gens, reqExists, reqFile, pst, pth, workerVars,
                   hbpc, monVars, client, nextCmd, queryVars, accepted,
                   notices, apc, pq, gi>>

ToolWaitSteps ==
    \/ \E tool_name \in Tools : CallToolBegin(tool_name)
    \/ \E raises \in BOOLEAN : CallToolFirst(raises)
    \/ CallToolTick
    \/ \E raises \in BOOLEAN : CallToolPoll(raises)
    \/ CallToolWindowEnds

\* ---------------------------------------------- get_input, the wait counted

\* what get_input is called with: no prompt, or a prompt
Prompts == {"", "Enter your feedback for improving the SQL query: "}

\* a loop that does not count its rounds
SameAttempt(attempt) == attempt

\* for attempt in range(max_attempts): the next round
NextAttempt(attempt) == attempt + 1

\* get_input up to its loop: a prompt that is not empty is appended to the
\* response file, the flag file is created, the request file is cleared
GetInputCall(prompt) ==
    /\ gi.pc \in {"idle", "done"}
    /\ CanOut
    /\ respExists' = (respExists \/ prompt # "")
    /\ respFile' = IF prompt # ""
                   THEN Append(respFile, Tok("worker", "prompt"))
                   ELSE respFile
    /\ outN' = IF prompt # "" THEN outN + 1 ELSE outN
    /\ flagExists' = TRUE
    /\ reqExists' = TRUE
    /\ reqFile' = GetInputEnter(reqFile)
    /\ gi' = [pc |-> "wait", attempt |-> 0, acked |-> FALSE, ret |-> <<>>]
    /\ UNCHANGED <<sess, gens, pst, pth, wpc, wval, returned, hbpc, monVars,
                   client, nextCmd, queryVars, accepted, notices, apc, pq,
                   ct>>

\* get_input, one round of its loop.  A read that raises is logged; an
\* empty file is polled again after a second; a probe is acknowledged in
\* the response file, the request file is cleared, the flag file removed
\* and the loop continues; anything else is returned after the flag file is
\* removed.  Every round that does not return is counted
GetInputPoll(raises) ==
    /\ gi.pc = "wait"
    /\ gi.attempt < MaxAttempts
    /\ IF raises \/ ~reqExists \/ Content(reqFile) = <<>>
       THEN /\ gi' = [gi EXCEPT !.attempt = NextAttempt(@)]
            /\ UNCHANGED <<reqFile, respExists, respFile, outN, flagExists>>
       ELSE IF Content(reqFile)[1] = Probe
       THEN /\ gi' = [gi EXCEPT !.attempt = NextAttempt(@), !.acked = TRUE]
            /\ respExists' = TRUE
            /\ respFile' = Append(respFile, Tok("worker", "probe_ack"))
            /\ outN' = outN + 1
            /\ reqFile' = <<>>
            /\ flagExists' = FALSE
       ELSE /\ gi' = [gi EXCEPT !.pc = "done", !.ret = Content(reqFile)]
            /\ flagExists' = FALSE
            /\ UNCHANGED <<reqFile, respExists, respFile, outN>>
    /\ UNCHANGED <<sess, gens, reqExists, pst, pth, wpc, wval, returned, hbpc,
                   monVars, client, nextCmd, queryVars, accepted, notices,
                   apc, pq, ct>>

\* get_input after its loop: the flag file is removed and "Timed out
\* waiting for input" is returned
GetInputExhausted ==
    /\ gi.pc = "wait"
    /\ ~(gi.attempt < MaxAttempts)
    /\ flagExists' = FALSE
    /\ gi' = [gi EXCEPT !.pc = "done", !.ret = <<TimedOut>>]
    /\ UNCHANGED <<sess, gens, fileVars, pst, pth, wpc, wval, returned, hbpc,
                   monVars, client, nextCmd, queryVars, accepted, notices,
                   apc, pq, ct>>

InputWaitSteps ==
    \/ \E prompt \in Prompts : GetInputCall(prompt)
    \/ \E raises \in BOOLEAN : GetInputPoll(raises)
    \/ GetInputExhausted

\* handle_action for a refinement
RefineSteps ==
    \/ HandleRefine
    \/ HandleRefineFeedback

Next ==
    \/ WebSteps
    \/ RestartSteps
    \/ ProcessSteps
    \/ WorkerSteps
    \/ HeartbeatSteps
    \/ AggregatorSteps
    \/ ProbeSteps
    \/ ExitSteps
    \/ RefineSteps
    \/ ProcessQuerySteps
    \/ PromptSteps
    \/ RejectSteps
    \/ ToolWaitSteps
    \/ InputWaitSteps

Spec == Init /\ [][Next]_vars

\* The request channel of one worker that stays alive: every writer of the
\* request file (the client's queries and actions, the heartbeat, the probe)
\* and the worker's reads of it.  The monitor only polls for liveness here.
NextChannel ==
    \/ WebSteps
    \/ \E g \in Procs : RunProcessSpawn(g)
    \/ WorkerSteps
    \/ HeartbeatSteps
    \/ \E g \in Procs : MonitorInit(g)
    \/ ProbeSteps

SpecChannel == Init /\ [][NextChannel]_vars

\* The response file and its reader: the worker's writes, the marker of
\* run_client_query, the monitor's reads and flushes, a worker that dies.
NextOutput ==
    \/ Connect
    \/ HandleQuery
    \/ RunClientQuery
    \/ RunClientQueryCheck
    \/ \E g \in Procs : RunProcessSpawn(g)
    \/ \E g \in Procs : RunProcessEnd(g)
    \/ \E g \in Procs : Kill(g)
    \/ \E g \in Procs : WorkerStartup(g)
    \/ \E g \in Procs : CallToolFirstCheck(g)
    \/ \E g \in Procs : CallToolResult(g)
    \/ \E g \in Procs : CallToolHeartbeat(g)
    \/ \E g \in Procs : CallToolTimeout(g)
    \/ \E g \in Procs : ChatLoopStart(g)
    \/ \E g \in Procs : WorkerNextInput(g)
    \/ \E g \in Procs : GetInputReturn(g)
    \/ HeartbeatSteps
    \/ \E g \in Procs : MonitorInit(g)
    \/ \E g \in Procs : MonitorRead(g)
    \/ \E g \in Procs : MonitorExit(g)

SpecOutput == Init /\ [][NextOutput]_vars

\* One handle_query call after the other against processes that die: the
\* restart paths of handle_query and run_client_query.
NextQuery ==
    \/ Connect
    \/ HandleQuery
    \/ HandleQueryCleanup
    \/ HandleQueryStart
    \/ RunClientQuery
    \/ RunClientQueryCheck
    \/ RunClientQueryRestart
    \/ \E g \in Procs : RunProcessSpawn(g)
    \/ \E g \in Procs : RunProcessEnd(g)
    \/ \E g \in Procs : Kill(g)

SpecQuery == Init /\ [][NextQuery]_vars

\* A worker that is killed under a monitor that polls for liveness, and the
\* handlers that start a new worker.
NextDeath ==
    \/ Connect
    \/ HandleQuery
    \/ HandleQueryCleanup
    \/ HandleQueryStart
    \/ RunClientQuery
    \/ RunClientQueryCheck
    \/ RunClientQueryRestart
    \/ \E g \in Procs : RunProcessSpawn(g)
    \/ \E g \in Procs : Kill(g)
    \/ \E g \in Procs : MonitorInit(g)
    \/ ProbeSteps

SpecDeath == Init /\ [][NextDeath]_vars

\* The life cycle of the session: processes that end, the restart paths of
\* handle_query, run_client_query and the monitor.  The workers stay silent
\* and the monitors only poll for liveness.
NextLife ==
    \/ NextQuery
    \/ \E g \in Procs : WorkerSigterm(g)
    \/ \E g \in Procs : MonitorInit(g)
    \/ \E g \in Procs : MonitorExit(g)
    \/ ProbeSteps
    \/ \E g \in Procs : MonitorUnresponsive(g)
    \/ \E g \in Procs : MonitorCleanup(g)
    \/ \E g \in Procs : MonitorRestart(g)

SpecLife == Init /\ [][NextLife]_vars

\* A client that disconnects: cleanup_session against the threads of the
\* session and its worker, which writes its startup text and, on SIGTERM,
\* its shutdown text.
NextDestroy ==
    \/ Connect
    \/ Disconnect
    \/ \E g \in Procs : RunProcessSpawn(g)
    \/ \E g \in Procs : RunProcessEnd(g)
    \/ \E g \in Procs : WorkerStartup(g)
    \/ \E g \in Procs : WorkerSigterm(g)
    \/ \E g \in Procs : Kill(g)
    \/ HeartbeatSteps
    \/ \E g \in Procs : MonitorInit(g)
    \/ \E g \in Procs : MonitorRead(g)
    \/ \E g \in Procs : MonitorExit(g)
    \/ ProbeSteps
    \/ \E g \in Procs : MonitorUnresponsive(g)
    \/ \E g \in Procs : MonitorCleanup(g)
    \/ \E g \in Procs : MonitorRestart(g)

SpecDestroy == Init /\ [][NextDestroy]_vars

\* A client that disconnects while the monitor holds output of the worker
\* in its buffer.
NextDiscard ==
    \/ Connect
    \/ Disconnect
    \/ \E g \in Procs : RunProcessSpawn(g)
    \/ \E g \in Procs : WorkerStartup(g)
    \/ \E g \in Procs : CallToolFirstCheck(g)
    \/ \E g \in Procs : CallToolTimeout(g)
    \/ \E g \in Procs : ChatLoopStart(g)
    \/ \E g \in Procs : GetInputProbe(g)
    \/ \E g \in Procs : WorkerSigterm(g)
    \/ \E g \in Procs : MonitorInit(g)
    \/ \E g \in Procs : MonitorRead(g)
    \/ \E g \in Procs : MonitorIdleFlush(g)
    \/ \E g \in Procs : MonitorExit(g)
    \/ ProbeSteps

SpecDiscard == Init /\ [][NextDiscard]_vars

\* terminate() without a wait: the paths that send it (the disconnect, the
\* restarts of handle_query and run_client_query) and the worker's handling
\* of the signal.
NextTerminate ==
    \/ NextQuery
    \/ Disconnect
    \/ \E g \in Procs : WorkerSigterm(g)
    \/ \E g \in Procs : MonitorInit(g)
    \/ \E g \in Procs : MonitorExit(g)

\* Every thread of the web tier keeps running: a handler that was entered
\* runs to its end, and the process and monitor threads take their next
\* step.  Nothing is assumed of the worker process: it may be stuck in a
\* call that never returns to the interpreter, where its SIGTERM handler
\* does not run.
SpecTerminate ==
    /\ Init
    /\ [][NextTerminate]_vars
    /\ WF_vars(HandleQueryCleanup)
    /\ WF_vars(HandleQueryStart)
    /\ WF_vars(RunClientQuery)
    /\ WF_vars(RunClientQueryCheck)
    /\ WF_vars(RunClientQueryRestart)
    /\ \A g \in Procs : WF_vars(RunProcessSpawn(g))
    /\ \A g \in Procs : WF_vars(RunProcessEnd(g))
    /\ \A g \in Procs : WF_vars(MonitorInit(g))
    /\ \A g \in Procs : WF_vars(MonitorExit(g))

\* cleanup_session called again: by handle_query's restart branch and by
\* the disconnect, on a session whose worker is dead or that the other call
\* has destroyed already.
NextCleanup ==
    \/ NextQuery
    \/ Disconnect
    \/ \E g \in Procs : WorkerSigterm(g)

SpecCleanup == Init /\ [][NextCleanup]_vars

\* The monitor thread keeps polling every 0.2 s: a poll that finds new
\* content reads it, a liveness check that was begun is finished, and the
\* thread leaves its loop once the loop condition fails (weak fairness).  A poll without new content tests the buffer for
\* its flush before it does anything else, so a flush that is due again and
\* again is made, whatever liveness checks and probes come between (strong
\* fairness).  Nothing is assumed of the worker or of the client.
SpecFlush ==
    /\ Init
    /\ [][NextDiscard]_vars
    /\ \A g \in Procs : WF_vars(MonitorRead(g))
    /\ \A g \in Procs : WF_vars(MonitorExit(g))
    /\ \A g \in Procs : WF_vars(MonitorProbeWrite(g))
    /\ \A g \in Procs : SF_vars(MonitorIdleFlush(g))

\* A command that the worker does not consume: queries submitted to a worker
\* that never reads the request file (it hangs, or it dies), under the
\* monitor's liveness checks and its restart for 120 s without output.
NextConsume ==
    \/ NextQuery
    \/ \E g \in Procs : MonitorInit(g)
    \/ \E g \in Procs : MonitorRead(g)
    \/ \E g \in Procs : MonitorLiveness(g)
    \/ \E g \in Procs : MonitorProbeWrite(g)
    \/ \E g \in Procs : MonitorUnresponsive(g)
    \/ \E g \in Procs : MonitorCleanup(g)
    \/ \E g \in Procs : MonitorRestart(g)
    \/ \E g \in Procs : MonitorExit(g)

\* Every thread of the web tier keeps running and time passes: a handler
\* that was entered runs to its end, the process thread takes its next step,
\* and the monitor makes its reads, its liveness checks and, once its
\* 120 s have passed without output, its restart.  Nothing is assumed of the
\* worker.
SpecConsume ==
    /\ Init
    /\ [][NextConsume]_vars
    /\ WF_vars(HandleQueryCleanup)
    /\ WF_vars(HandleQueryStart)
    /\ WF_vars(RunClientQuery)
    /\ WF_vars(RunClientQueryCheck)
    /\ WF_vars(RunClientQueryRestart)
    /\ \A g \in Procs : WF_vars(RunProcessSpawn(g))
    /\ \A g \in Procs : WF_vars(RunProcessEnd(g))
    /\ \A g \in Procs : WF_vars(MonitorInit(g))
    /\ \A g \in Procs : WF_vars(MonitorRead(g))
    /\ \A g \in Procs : WF_vars(MonitorLiveness(g))
    /\ \A g \in Procs : WF_vars(MonitorProbeWrite(g))
    /\ \A g \in Procs : SF_vars(MonitorUnresponsive(g))
    /\ \A g \in Procs : WF_vars(MonitorCleanup(g))
    /\ \A g \in Procs : WF_vars(MonitorRestart(g))
    /\ \A g \in Procs : WF_vars(MonitorExit(g))

\* The three restart paths: handle_query for a process found dead,
\* run_client_query for a process that died after the write, the monitor for
\* a worker without output.
NextRestart ==
    \/ Connect
    \/ HandleQuery
    \/ HandleQueryCleanup
    \/ HandleQueryStart
    \/ RunClientQuery
    \/ RunClientQueryCheck
    \/ RunClientQueryRestart
    \/ \E g \in Procs : RunProcessSpawn(g)
    \/ \E g \in Procs : Kill(g)
    \/ \E g \in Procs : MonitorInit(g)
    \/ \E g \in Procs : MonitorLiveness(g)
    \/ \E g \in Procs : MonitorUnresponsive(g)
    \/ \E g \in Procs : MonitorCleanup(g)
    \/ \E g \in Procs : MonitorRestart(g)

SpecRestart == Init /\ [][NextRestart]_vars

\* A worker that cannot be started, under the handlers that start workers
\* and submit queries to them.
NextSpawn ==
    \/ NextQuery
    \/ \E g \in Procs : RunProcessSpawnFails(g)

SpecSpawn == Init /\ [][NextSpawn]_vars

\* The waits of chat_loop and their ends: a query, the query "/exit", a
\* heartbeat, the timeout of get_input.
NextExit ==
    \/ Connect
    \/ HandleQuery
    \/ RunClientQuery
    \/ RunClientQueryCheck
    \/ \E g \in Procs : RunProcessSpawn(g)
    \/ \E g \in Procs : WorkerStartup(g)
    \/ \E g \in Procs : CallToolFirstCheck(g)
    \/ \E g \in Procs : CallToolTimeout(g)
    \/ \E g \in Procs : ChatLoopStart(g)
    \/ \E g \in Procs : WorkerNextInput(g)
    \/ \E g \in Procs : WorkerCallTool(g)
    \/ \E g \in Procs : GetInputReturn(g)
    \/ \E g \in Procs : MonitorInit(g)
    \/ ProbeSteps
    \/ ExitSteps

SpecExit == Init /\ [][NextExit]_vars

\* A refinement: the two writes of handle_action for 'f' against a worker
\* that polls the request file in get_input.
NextRefine ==
    \/ Connect
    \/ HandleQuery
    \/ RunClientQuery
    \/ RunClientQueryCheck
    \/ \E g \in Procs : RunProcessSpawn(g)
    \/ \E g \in Procs : WorkerStartup(g)
    \/ \E g \in Procs : CallToolFirstCheck(g)
    \/ \E g \in Procs : CallToolTimeout(g)
    \/ \E g \in Procs : ChatLoopStart(g)
    \/ \E g \in Procs : WorkerNextInput(g)
    \/ \E g \in Procs : GetInputReturn(g)
    \/ RefineSteps

SpecRefine == Init /\ [][NextRefine]_vars

\* process_query over everything get_input can return to it, while the
\* client connects and leaves.
NextDecide ==
    \/ ProcessQuerySteps
    \/ Connect
    \/ Disconnect

SpecDecide == Init /\ [][NextDecide]_vars

\* The decision prompt and its reader: process_query writes, the monitor
\* of the session polls (every text here is longer than 30 characters, so
\* each read is flushed at once).
NextPrompt ==
    \/ Connect
    \/ \E g \in Procs : MonitorInit(g)
    \/ \E g \in Procs : MonitorRead(g)
    \/ ProcessQuerySteps
    \/ PromptSteps

SpecPrompt == Init /\ [][NextPrompt]_vars

\* handle_action and handle_query against a session that is started, whose
\* worker can die, and that the client can leave.
NextAction ==
    \/ Connect
    \/ Disconnect
    \/ \E g \in Procs : RunProcessSpawn(g)
    \/ \E g \in Procs : Kill(g)
    \/ HandleQuery
    \/ HandleQueryCleanup
    \/ HandleQueryStart
    \/ RunClientQuery
    \/ RunClientQueryCheck
    \/ RunClientQueryRestart
    \/ HandleAction
    \/ RefineSteps
    \/ RejectSteps

SpecAction == Init /\ [][NextAction]_vars

\* call_tool's wait in time, with the writers of the request file of a
\* session whose worker is alive: the heartbeat and the client's actions.
\* Time passes, and the loop goes round.
NextToolWait ==
    \/ Connect
    \/ \E g \in Procs : RunProcessSpawn(g)
    \/ HeartbeatSteps
    \/ HandleAction
    \/ ToolWaitSteps

SpecToolWait ==
    /\ Init
    /\ [][NextToolWait]_vars
    /\ WF_vars(\E raises \in BOOLEAN : CallToolFirst(raises))
    /\ WF_vars(CallToolTick)
    /\ WF_vars(CallToolWindowEnds)

\* get_input's wait in attempts, with the writers of the request file of a
\* session whose worker is alive: the monitor's probe and the client's
\* actions.  The loop goes round.
NextInputWait ==
    \/ Connect
    \/ \E g \in Procs : RunProcessSpawn(g)
    \/ \E g \in Procs : MonitorInit(g)
    \/ ProbeSteps
    \/ HandleAction
    \/ InputWaitSteps

SpecInputWait ==
    /\ Init
    /\ [][NextInputWait]_vars
    /\ WF_vars(\E raises \in BOOLEAN : GetInputPoll(raises))
    /\ WF_vars(GetInputExhausted)

\* ------------------------------------------------------------------ claims

\* command c is in the request file
InRequestFile(c) ==
    \E i \in 1..Len(reqFile) : IsRealCommand(reqFile[i]) /\ reqFile[i].id = c

\* C1: heartbeat non-interference.  No heartbeat write happens while a real
\* command is in the request file: a heartbeat never overwrites a command.
C1_HeartbeatNeverOverwrites ==
    [][\A g \in Procs : HeartbeatWrite(g) => ~Pending]_vars

C5_ExactlyOnce ==
    \A c \in accepted :
        /\ returned[c] <= 1
        /\ (c = nextCmd - 1 /\ qpc = "idle")
              => (returned[c] = 1 \/ InRequestFile(c))

\* C6: single pending command.  The request file holds at most one line,
\* whoever wrote last (query, action, heartbeat or probe).
C6_SinglePending == Len(reqFile) <= 1

\* an action was written over a query the worker had not read, and the
\* request file holds the action only
C6_Witness ==
    /\ reqFile = <<ActionCmd(2)>>
    /\ qcmd = 1
    /\ qwrites = 1
    /\ wpc[1] = "boot"

\* C3 as stated: a call of run_client_query that returned True made exactly
\* one write to the request file, a call that returned False made none.
C3_NoWriteWhenFalse ==
    /\ qret = "true" => qwrites = 1
    /\ qret = "false" => qwrites = 0

\* C3 amended: a call that returned True made exactly one write; a call
\* that returned False made none, or it made one and then found the process
\* dead, cleaned the session up and started a new worker.
C3_WritesPerCall ==
    /\ qret = "true" => qwrites = 1
    /\ qret = "false" => (qwrites = 0 \/ (qwrites = 1 /\ gens >= 2))

\* the call wrote its query, the process died within the second after the
\* write, the session was restarted and the call returned False
C3_Witness ==
    /\ qret = "false"
    /\ qwrites = 1
    /\ gens = 2
    /\ pst[1] = "exited"

\* the texts of a sequence of chunks, concatenated
RECURSIVE Concat(_)
Concat(chunks) ==
    IF chunks = <<>> THEN <<>>
    ELSE Head(chunks).text \o Concat(Tail(chunks))

\* texts in the order they were written, none twice
InWriteOrder(s) == \A i \in 1..(Len(s) - 1) : s[i].n < s[i + 1].n

\* C4: ordering.  The chunks delivered to the client, concatenated, hold
\* only texts the worker wrote, in the order they were written and none
\* twice.
C4_DeliveredIsWorkerOutput ==
    LET s == Concat(delivered) IN
    /\ \A i \in 1..Len(s) : s[i].by = "worker"
    /\ InWriteOrder(s)

\* C7: liveness recovery.  In finite form: the session of a worker that is
\* alive stays active, so that the monitor loop that detects a worker
\* without output, and restarts it, keeps running.
C7_LiveWorkerWatched ==
    (is_process_alive /\ pst[sess.process] = "running") => sess.active

\* a step of monitor g out of its loop while the process the session holds
\* has exited
DeadWorkerPoll(g) ==
    /\ mpc[g] = "loop"
    /\ LoopCondition
    /\ sess.process # 0
    /\ pst[sess.process] = "exited"
    /\ mpc'[g] # mpc[g]

C9_NoDoubleSpawn == Cardinality({g \in Procs : pst[g] = "running"}) <= 1

\* C10: restart replaces the worker.  Once a restart has started a new
\* generation, no worker of an earlier generation is running.
C10_RestartReplacesWorker ==
    \A g \in Procs : g < gens => pst[g] # "running"

\* C11: destroy postcondition.  Once the client has disconnected and
\* cleanup_session has run, the session is not in the registry, neither
\* channel file exists and no worker of the session is running.
C11_DestroyedStaysDestroyed ==
    client = "gone"
    => /\ ~sess.present
       /\ ~reqExists
       /\ ~respExists
       /\ \A g \in Procs : pst[g] # "running"

C13_TerminateEndsWorker ==
    \A g \in Procs : (pst[g] = "signalled") ~> (pst[g] = "exited")

\* a call of cleanup_session by handle_disconnect or by handle_query
CleanupCall ==
    \/ client = "connected" /\ client' = "gone"
    \/ qpc = "cleanup" /\ qpc' = "create"

\* C14: cleanup_session is idempotent.  A call on a session that was
\* destroyed already changes neither the registry, nor the files, nor a
\* process; a call on a session whose worker is dead signals no process
\* and leaves the registry without the entry and both files removed.
C14_CleanupIdempotent ==
    [][CleanupCall
         => /\ ~sess.present
                 => UNCHANGED <<sess, pst, reqExists, reqFile, respExists,
                                respFile>>
            /\ (sess.present /\ ~is_process_alive)
                 => /\ pst' = pst
                    /\ sess' = NoSession
                    /\ ~reqExists'
                    /\ ~respExists']_vars

\* handle_disconnect and handle_query's restart branch have both called
\* cleanup_session, the second on the destroyed session; the response
\* file the worker's shutdown text recreated is still there
C14_Witness ==
    /\ client = "gone"
    /\ qpc = "create"
    /\ ~sess.present
    /\ respExists
    /\ pst[1] = "exited"

\* C15: sentinels are never treated as real input.  Nothing that get_input
\* or call_tool handed to the conversation logic is a __PROBE__, and the
\* worker never handles a __HEARTBEAT__ as a command.
C15_SentinelNeverInput ==
    \A g \in Procs :
        /\ wval[g] # <<Probe>>
        /\ wpc[g] \in {"call_query", "tool_query"} => wval[g] # <<Heartbeat>>

\* worker g, waiting in get_input or in call_tool, takes a __PROBE__ out of
\* the request file
ProbeRead(g) ==
    /\ pst[g] = "running"
    /\ wpc[g] \in {"gi_wait", "call_init", "call_query", "tool_init",
                   "tool_query"}
    /\ reqFile = <<Probe>>
    /\ reqFile' = <<>>

\* C16: probe acknowledgement.  Whenever the worker reads a __PROBE__ from
\* the request file it appends the acknowledgement to the response file.
C16_ProbeAcknowledged ==
    [][\A g \in Procs :
          ProbeRead(g)
          => /\ Len(respFile') = Len(respFile) + 1
             /\ respFile'[Len(respFile')].t = "probe_ack"]_vars

\* C17: consume clears the request file.  When get_input returns, the
\* request file is empty; so a command in the request file has not been
\* returned by get_input yet.
C17_ConsumeClears ==
    [][/\ \A g \in Procs :
             (wpc[g] = "gi_wait" /\ wpc'[g] = "got") => reqFile' = <<>>
       /\ \A c \in CmdIds : InRequestFile(c)' => returned'[c] = 0]_vars

\* C18: the flag file tracks waiting.  The flag file exists exactly while a
\* worker of the session is inside get_input waiting for a command, also
\* after it has acknowledged a probe.
C18_FlagTracksWaiting ==
    flagExists <=> \E g \in Procs : pst[g] = "running" /\ wpc[g] = "gi_wait"

\* sequence s is the beginning of sequence t
IsPrefix(s, t) == Len(s) <= Len(t) /\ SubSeq(t, 1, Len(s)) = s

\* C19: the response file is append-only.  Once start_client_process has
\* emptied the channel files and the monitor has made its initial
\* truncation, every step leaves the content of the response file in place
\* and at most adds to its end; so no read cursor is beyond the end of the
\* file.
C19_AppendOnly ==
    [][(gens' = gens /\ respExists /\ respExists'
          /\ \A g \in Procs : mpc[g] # "init")
         => /\ IsPrefix(respFile, respFile')
            /\ \A g \in Procs : mpos'[g] <= Len(respFile')]_vars

\* the texts in a sequence
Texts(s) == {s[i] : i \in 1..Len(s)}

\* C20: truncation tolerance.  After every read of the monitor, all that the
\* response file holds has been taken by the monitor (it is in a chunk
\* already emitted or in the buffer): content that replaced what the
\* monitor had read before is read from the start of the file, whatever its
\* length.
C20_ReplacedContentRead ==
    [][\A g \in Procs :
          (mpc[g] = "loop" /\ mpc'[g] = "loop" /\ mpos'[g] # mpos[g])
          => Texts(respFile) \subseteq
               (Texts(Concat(delivered')) \cup Texts(mbuf'[g]))]_vars

\* a text that holds a prompt: the welcome text with the ready banner and
\* the first query prompt, or a prompt written before get_input waits
IsPrompt(t) == t.t \in {"welcome", "prompt"}

HasPrompt(buf) == \E i \in 1..Len(buf) : IsPrompt(buf[i])

C22_BufferFlushed ==
    \A g \in Procs : (mbuf[g] # <<>>) ~> (mbuf[g] = <<>>)

\* the session is active, the worker is waiting and has written nothing
\* more, and the text that was in the buffer was emitted by the flush of a
\* poll without new content
C22_Witness ==
    /\ LoopCondition
    /\ delivered # <<>>
    /\ delivered[Len(delivered)].log = "timeout"
    /\ mbuf[1] = <<>>
    /\ mpc[1] = "loop"

\* the texts the worker wrote that the response file holds
WorkerTexts == {t \in Texts(respFile) : t.by = "worker"}

\* C23: end of stream.  When the end of the worker is signalled to the
\* client, everything the worker wrote to the response file has been
\* delivered.
C23_EndAfterAll ==
    [][\A g \in Procs :
          (\E k \in {"ended", "stopped"} :
               [k |-> k, g |-> g] \in notices' \ notices)
          => WorkerTexts' \subseteq Texts(Concat(delivered'))]_vars

\* the worker the session holds has emitted its first prompt: chat_loop has
\* written its welcome text with the query prompt
FirstPromptEmitted ==
    /\ sess.present
    /\ sess.process # 0
    /\ pst[sess.process] = "running"
    /\ wpc[sess.process] \in {"gi_wait", "got", "call_query", "tool_query"}

\* C24: submit requires Ready.  run_client_query writes a query to the
\* request file only when the worker of the session has started and has
\* emitted its first prompt.
C24_WriteOnlyWhenReady ==
    [][(qwrites' = qwrites + 1) => FirstPromptEmitted]_vars

\* C25: consumption timeout.  A command that is in the request file of an
\* active session whose monitor is polling does not stay there for ever: it
\* is consumed, or the web tier escalates to a restart, which removes the
\* request file.
C25_UnconsumedEscalated ==
    \A c \in CmdIds :
        (InRequestFile(c) /\ sess.active /\ mpc[gens] = "loop")
            ~> ~InRequestFile(c)

\* the automatic restarts begun so far: the restart of the monitor for a
\* worker without output, and of run_client_query for a worker that died
\* after the write, each announced before it is made
RestartsBegun == {n \in notices : n.k \in {"stuck", "died"}}

\* C26: bounded restarts.  The web tier begins no more than MaxRestarts
\* automatic restarts of a session.
C26_RestartsBounded == Cardinality(RestartsBegun) <= MaxRestarts

\* C27: restarts are observable.  Each restart path announces the restart
\* to the client when it is entered (handle_query for a dead process,
\* run_client_query for a process that died after the write, the monitor
\* for a worker without output), so the notice is out before that path
\* calls start_client_process for the fresh worker.
C27_RestartAnnounced ==
    [][/\ (qpc' = "cleanup" /\ qpc # "cleanup")
            => [k |-> "restarting", g |-> gens] \in notices'
       /\ (qpc' = "restart" /\ qpc # "restart")
            => [k |-> "died", g |-> gens] \in notices'
       /\ \A g \in Procs :
            (mpc'[g] = "cleanup" /\ mpc[g] # "cleanup")
                => [k |-> "stuck", g |-> g] \in notices'
       /\ (gens' = gens + 1 /\ qpc = "restart" /\ qpc' = "idle")
            => \E n \in notices : n.k = "died"
       /\ \A g \in Procs :
            (gens' = gens + 1 /\ mpc[g] = "restart" /\ mpc'[g] = "done")
                => [k |-> "stuck", g |-> g] \in notices]_vars

\* the monitor of the first worker has announced its restart and has
\* started the second worker
C27_Witness ==
    /\ gens = 2
    /\ mpc[1] = "done"
    /\ [k |-> "stuck", g |-> 1] \in notices

\* C28: registry accesses are mutually exclusive.  No thread accesses the
\* entry of the session after another thread removed it: handle_query does
\* not find the entry gone at its store of current_action after its
\* membership check, and run_process does not find it gone at its store of
\* the process.
C28_NoAccessAfterRemoval ==
    /\ qret # "error"
    /\ \A g \in Procs : [k |-> "error", g |-> g] \notin notices

\* the worker of generation g could not be started: its run_process thread
\* has ended without a process
SpawnFailed(g) == pth[g] = "done" /\ pst[g] = "none"

\* C29: spawn failure is reported.  When the worker of the session could
\* not be started, start_client_process does not return success, the error
\* has been emitted to the client, and the session is not registered as
\* active.
C29_SpawnFailureReported ==
    \A g \in Procs :
        (SpawnFailed(g) /\ gens = g /\ sess.present /\ sess.process = 0)
        => /\ [k |-> "error", g |-> g] \in notices
           /\ ~sess.active
           /\ ~StartClientProcessReturns

\* C30: the timeout of get_input ends the chat loop.  The step chat_loop
\* takes with the value that a timed-out get_input returned leaves the loop
\* and ends the process, as "/exit" does; the value is not processed as a
\* query.
C30_TimeoutLeavesLoop ==
    [][\A g \in Procs :
          (wpc[g] = "got" /\ wval[g] = <<TimedOut>> /\ wpc'[g] # "got")
          => (wpc'[g] = "done" /\ pst'[g] = "exited")]_vars

\* the commands of the user in a content
CommandsIn(content) ==
    {content[j].id : j \in {i \in 1..Len(content) : IsRealCommand(content[i])}}

\* C31: a consumed command is never reused as a tool result.  What a
\* call_tool made by process_query returns, by its first check or by its
\* waiting loop, holds no command that get_input has returned before.
C31_ConsumedNotReused ==
    [][\A g \in Procs :
          (wpc[g] \in {"call_query", "tool_query"} /\ wpc'[g] = "got")
          => \A c \in CommandsIn(wval'[g]) : returned[c] = 0]_vars

\* C32: refine delivers the action, then the feedback.  While the worker
\* waits in get_input, the write of the feedback does not replace an action
\* 'f' that get_input has not returned yet.
C32_ActionReadBeforeFeedback ==
    [][(/\ apc # 0 /\ apc' = 0 /\ reqFile' = <<Feedback(apc)>>
        /\ wpc[sess.process] = "gi_wait")
         => ~(InRequestFile(apc) /\ returned[apc] = 0)]_vars

\* C33: generated SQL runs only with approval.  process_query calls
\* query_table only in the step that read the decision 'e' at the decision
\* prompt, and at most once for a query; no other decision and no feedback
\* makes it call query_table.
C33_ExecuteOnlyApproved ==
    [][pq'.executed > pq.executed
         => /\ pq.pc = "decide"
            /\ pq'.decision = "e"
            /\ pq.executed = 0
            /\ pq'.executed = 1]_vars

\* the query was refined once and its second iteration was approved:
\* query_table is being called
C33_Witness ==
    /\ pq.pc = "tool"
    /\ pq.executed = 1
    /\ pq.iterations = 2
    /\ pq.decision = "e"

\* C36: heartbeats do not disturb a refinement.  When get_input returns a
\* __HEARTBEAT__ to process_query at the decision prompt or at the feedback
\* prompt, nothing is appended to the response file, and process_query
\* stays at that prompt with the same iterations.
C36_HeartbeatLeavesRefinement ==
    [][(pq.pc \in {"decide", "feedback"} /\ pq'.input = "__HEARTBEAT__")
         => /\ respFile' = respFile
            /\ pq'.pc = pq.pc
            /\ pq'.iterations = pq.iterations]_vars

\* C34: probe non-interference.  The monitor's write of __PROBE__ never
\* replaces a query or an action in the request file that get_input has not
\* returned to the worker.
C34_ProbeNeverOverwrites ==
    [][\A g \in Procs :
          MonitorProbeWrite(g)
          => \A c \in CmdIds : ~(InRequestFile(c) /\ returned[c] = 0)]_vars

\* C35: one set of loops per session.  Once the session has been restarted
\* (cleanup_session, then a new entry for the same id), the heartbeat loop
\* and the monitor loop of an earlier incarnation pass their loop condition
\* no more: the old heartbeat goes on to no write, the old monitor to no
\* further poll.
C35_OldLoopsStopped ==
    [][\A g \in Procs :
          g < gens
          => /\ ~(HeartbeatCheck(g) /\ hbpc'[g] = "write")
             /\ ~(MonitorLiveness(g) /\ mpc'[g] # "stopped")]_vars

\* the decision prompt is complete in the response file, and its last part
\* is the text at position i
PromptEndsAt(i) ==
    \/ respFile[i].t \in {"sql_prompt", "invalid_prompt"}
    \/ /\ respFile[i].t = "sql_prompt_tail"
       /\ i > 1
       /\ respFile[i - 1].t = "sql_prompt_head"

\* C37: the decision prompt is always signalled.  The polling monitor of
\* the session that has read the complete decision prompt has emitted
\* waiting_for_decision, however the prompt's bytes were split across its
\* reads and flushes.
C37_PromptSignalled ==
    \A i \in 1..Len(respFile) :
        (/\ PromptEndsAt(i)
         /\ sess.present /\ sess.active
         /\ mpc[gens] = "loop"
         /\ mpos[gens] >= i)
        => \E n \in notices : n.k = "waiting_for_decision"

\* C38: rejected actions write nothing.  A handle_action that returns
\* before run_client_action (an action that is not 'e', 'f' or 'c', an 'f'
\* without feedback, an unknown session or a worker that is not alive)
\* leaves the request file and the registry entry as they were, and starts
\* no worker.
C38_RejectedActionWritesNothing ==
    [][(\E action \in ActionInputs, feedback \in FeedbackTexts :
           HandleActionRejected(action, feedback))
         => /\ reqFile' = reqFile
            /\ sess' = sess
            /\ gens' = gens]_vars

C40_InputWaitEnds ==
    /\ [](gi.attempt <= MaxAttempts)
    /\ [][(/\ \E raises \in BOOLEAN : GetInputPoll(raises)
           /\ reqExists /\ Content(reqFile) # <<>>
           /\ Content(reqFile)[1] = Probe
           /\ reqFile' # reqFile)
            => /\ respFile' = Append(respFile, Tok("worker", "probe_ack"))
               /\ gi'.pc = "wait"
               /\ gi'.attempt = gi.attempt + 1]_vars
    /\ (gi.pc = "wait") ~> (gi.pc = "done")

\* a wait that acknowledged a probe went through all its attempts and
\* returned the text of the timeout
C40_Witness ==
    /\ gi.pc = "done"
    /\ gi.acked
    /\ gi.attempt = MaxAttempts
    /\ gi.ret = <<TimedOut>>

====
